---- MODULE Spec2Model ----
(***************************************************************************)
(* Model of pkg/util/kubernetes/kubelet/kubelet.go: the KubeUtil singleton *)
(* (GetKubeUtil and its retried init), the pod-list cache                  *)
(* (GetLocalPodList, ForceGetLocalPodList, ResetCache), the lookups built  *)
(* on it (GetPodForContainerID, GetPodFromUID, GetNodeInfo) and the        *)
(* accessors (GetRawConnectionInfo, GetKubeletApiEndpoint, QueryKubelet,   *)
(* GetRawMetrics).                                                         *)
(*                                                                         *)
(* Six specifications share the variables:                                 *)
(*   Spec      one caller using an initialised client: cache and lookups   *)
(*   SpecInit  one caller of GetKubeUtil / ResetGlobalKubeUtil             *)
(*   SpecConc  several goroutines inside GetKubeUtil, statement by         *)
(*             statement                                                   *)
(*   SpecProbe one goroutine in GetKubeUtil with init statement by         *)
(*             statement, then the accessors of the client                 *)
(*   SpecNode  one caller of GetNodeInfo                                   *)
(*   SpecRace  several goroutines inside GetLocalPodList and               *)
(*             ForceGetLocalPodList, statement by statement                *)
(***************************************************************************)
EXTENDS Integers, Sequences, FiniteSets, TLC

(***************************************************************************)
(* Bounds of the model (not program constants)                             *)
(***************************************************************************)
\* largest clock value, in seconds
MaxTime == 2
\* longest pod list the kubelet answers with
MaxPods == 2

(***************************************************************************)
(* Program constants                                                       *)
(***************************************************************************)
\* newKubeUtil: podListCacheDuration: 10 * time.Second
DefaultPodListCacheDuration == 10
\* http.StatusOK
StatusOK == 200
\* http.StatusInternalServerError
StatusInternalServerError == 500
\* retry.Config{RetryCount: 10}
RetryCount == 10

kubeletPodPath == "/pods"

(***************************************************************************)
(* Pods and pod lists                                                      *)
(***************************************************************************)
\* the fields of Pod the code reads: Metadata.UID, Status.Containers[].ID,
\* Status.HostIP, Spec.NodeName
PodA == [uid |-> "u1", containers |-> <<"c1">>, hostIP |-> "", nodeName |-> "n1"]
PodB == [uid |-> "u2", containers |-> <<"c2", "c3">>, hostIP |-> "h1", nodeName |-> "n1"]
Pods == {PodA, PodB}
NoPod == [uid |-> "", containers |-> <<>>, hostIP |-> "", nodeName |-> ""]

\* the kubelet reports a pod once: lists without repetition
PodLists ==
    {l \in UNION {[1..n -> Pods] : n \in 0..MaxPods} :
        \A i, j \in DOMAIN l : l[i] = l[j] => i = j}

\* identifiers the lookups are called with ("" is the empty identifier)
ContainerIDs == {"", "c3"}
PodUIDs == {"", "u1"}

\* cache TTLs a caller may set (seconds)
TTLs == {1, DefaultPodListCacheDuration}

(***************************************************************************)
(* Errors                                                                  *)
(***************************************************************************)
NoErr == [type |-> "nil", msg |-> ""]
\* fmt.Errorf: a plain error value
Errorf(m) == [type |-> "generic", msg |-> m]
\* errors.NewNotFound
NewNotFound(m) == [type |-> "notfound", msg |-> m]
\* errors.IsNotFound
IsNotFound(e) == e.type = "notfound"

(***************************************************************************)
(* Kubelet answers to one request: transport error, or a status code and a *)
(* body that parses into a pod list or does not                            *)
(***************************************************************************)
RespOK(l) == [err |-> FALSE, code |-> StatusOK, parses |-> TRUE, items |-> l]
RespTransport == [err |-> TRUE, code |-> 0, parses |-> FALSE, items |-> <<>>]
RespStatus == [err |-> FALSE, code |-> StatusInternalServerError, parses |-> FALSE, items |-> <<>>]
RespGarbage == [err |-> FALSE, code |-> StatusOK, parses |-> FALSE, items |-> <<>>]
Responses == {RespOK(l) : l \in PodLists} \cup {RespTransport, RespStatus, RespGarbage}

(***************************************************************************)
(* cache.Cache, restricted to podListCacheKey: the entry, the time it was  *)
(* stored and the duration it was stored with                              *)
(***************************************************************************)
NoEntry == [present |-> FALSE, items |-> <<>>, stored |-> 0, ttl |-> 0]

\* cache.Cache.Set(podListCacheKey, pods, d) at time t
CacheSet(items, t, d) == [present |-> TRUE, items |-> items, stored |-> t, ttl |-> d]

\* cache.Cache.Get(podListCacheKey) at time t: hit iff the entry is younger
\* than the duration it was stored with
CacheHit(c, t) == c.present /\ t - c.stored < c.ttl

\* cache.Cache.Delete(podListCacheKey)
ResetCacheF(c) == NoEntry

(***************************************************************************)
(* The operations as functions of the cache c, the clock t, the TTL d of   *)
(* the client and the kubelet's answers.  A result carries the new cache,  *)
(* the value and error returned, and counts of what the call did.          *)
(***************************************************************************)
ListResult(c, items, e, q, hit) ==
    [cache |-> c, items |-> items, err |-> e, queries |-> q, hit |-> hit]

\* GetLocalPodList answering every call with a query, as if the cache lookup
\* were missing
GetLocalPodListNoCache(c, t, d, resp) ==
    IF resp.err THEN ListResult(c, <<>>, Errorf("query"), 1, FALSE)
    ELSE IF resp.code # StatusOK THEN ListResult(c, <<>>, Errorf("status"), 1, FALSE)
    ELSE IF ~resp.parses THEN ListResult(c, <<>>, Errorf("unmarshal"), 1, FALSE)
    ELSE ListResult(CacheSet(resp.items, t, d), resp.items, NoErr, 1, FALSE)

\* KubeUtil.GetLocalPodList
GetLocalPodListF(c, t, d, resp) ==
    IF CacheHit(c, t) THEN ListResult(c, c.items, NoErr, 0, TRUE)
    ELSE IF resp.err THEN ListResult(c, <<>>, Errorf("query"), 1, FALSE)
    ELSE IF resp.code # StatusOK THEN ListResult(c, <<>>, Errorf("status"), 1, FALSE)
    ELSE IF ~resp.parses THEN ListResult(c, <<>>, Errorf("unmarshal"), 1, FALSE)
    ELSE ListResult(CacheSet(resp.items, t, d), resp.items, NoErr, 1, FALSE)

\* ForceGetLocalPodList without its ResetCache
ForceGetLocalPodListNoReset(c, t, d, resp) == GetLocalPodListF(c, t, d, resp)

\* KubeUtil.ForceGetLocalPodList
ForceGetLocalPodListF(c, t, d, resp) == GetLocalPodListF(ResetCacheF(c), t, d, resp)

(***************************************************************************)
(* Lookups                                                                 *)
(***************************************************************************)
SearchResult(p, e) == [pod |-> p, err |-> e]

\* index of the first pod of podList that runs containerID, 0 if none
RECURSIVE FirstPodWithContainer(_, _, _)
FirstPodWithContainer(podList, containerID, i) ==
    IF i > Len(podList) THEN 0
    ELSE IF \E k \in 1..Len(podList[i].containers) : podList[i].containers[k] = containerID
         THEN i
         ELSE FirstPodWithContainer(podList, containerID, i + 1)

\* KubeUtil.searchPodForContainerID
searchPodForContainerID(podList, containerID) ==
    IF containerID = "" THEN SearchResult(NoPod, Errorf("containerID is empty"))
    ELSE LET i == FirstPodWithContainer(podList, containerID, 1) IN
         IF i > 0 THEN SearchResult(podList[i], NoErr)
         ELSE SearchResult(NoPod, NewNotFound("container in PodList"))

\* index of the first pod of pods whose Metadata.UID is podUID, 0 if none
RECURSIVE FirstPodWithUID(_, _, _)
FirstPodWithUID(pods, podUID, i) ==
    IF i > Len(pods) THEN 0
    ELSE IF pods[i].uid = podUID THEN i
    ELSE FirstPodWithUID(pods, podUID, i + 1)

\* what a lookup returns and what it did: kubelet queries, calls of
\* ForceGetLocalPodList, scans of a pod list
LookupResult(c, p, e, q, f, s) ==
    [cache |-> c, pod |-> p, err |-> e, queries |-> q, forced |-> f, scans |-> s]

\* GetPodForContainerID reporting the miss of the first scan without a forced
\* refresh
GetPodForContainerIDNoRetry(c, t, d, containerID, resp1, resp2) ==
    LET r1 == GetLocalPodListF(c, t, d, resp1) IN
    IF r1.err # NoErr THEN LookupResult(r1.cache, NoPod, r1.err, r1.queries, 0, 0)
    ELSE LET s1 == searchPodForContainerID(r1.items, containerID) IN
         LookupResult(r1.cache, s1.pod, s1.err, r1.queries, 0, 1)

\* KubeUtil.GetPodForContainerID
GetPodForContainerIDF(c, t, d, containerID, resp1, resp2) ==
    LET r1 == GetLocalPodListF(c, t, d, resp1) IN
    IF r1.err # NoErr THEN LookupResult(r1.cache, NoPod, r1.err, r1.queries, 0, 0)
    ELSE
    LET s1 == searchPodForContainerID(r1.items, containerID) IN
    IF s1.err # NoErr /\ IsNotFound(s1.err) THEN
        LET r2 == ForceGetLocalPodListF(r1.cache, t, d, resp2) IN
        IF r2.err # NoErr
        THEN LookupResult(r2.cache, NoPod, r2.err, r1.queries + r2.queries, 1, 1)
        ELSE LET s2 == searchPodForContainerID(r2.items, containerID) IN
             LookupResult(r2.cache, s2.pod, s2.err, r1.queries + r2.queries, 1, 2)
    ELSE LookupResult(r1.cache, s1.pod, s1.err, r1.queries, 0, 1)

\* GetPodFromUID forcing a refresh although the first list holds the pod
GetPodFromUIDAlwaysRefresh(c, t, d, podUID, resp1, resp2) ==
    IF podUID = "" THEN LookupResult(c, NoPod, Errorf("pod UID is empty"), 0, 0, 0)
    ELSE
    LET r1 == GetLocalPodListF(c, t, d, resp1) IN
    IF r1.err # NoErr THEN LookupResult(r1.cache, NoPod, r1.err, r1.queries, 0, 0)
    ELSE
    LET r2 == ForceGetLocalPodListF(r1.cache, t, d, resp2) IN
    IF r2.err # NoErr
    THEN LookupResult(r2.cache, NoPod, r2.err, r1.queries + r2.queries, 1, 1)
    ELSE LET i2 == FirstPodWithUID(r2.items, podUID, 1) IN
         IF i2 > 0
         THEN LookupResult(r2.cache, r2.items[i2], NoErr, r1.queries + r2.queries, 1, 2)
         ELSE LookupResult(r2.cache, NoPod, Errorf("uid not found in pod list"),
                           r1.queries + r2.queries, 1, 2)

\* KubeUtil.GetPodFromUID
GetPodFromUIDF(c, t, d, podUID, resp1, resp2) ==
    IF podUID = "" THEN LookupResult(c, NoPod, Errorf("pod UID is empty"), 0, 0, 0)
    ELSE
    LET r1 == GetLocalPodListF(c, t, d, resp1) IN
    IF r1.err # NoErr THEN LookupResult(r1.cache, NoPod, r1.err, r1.queries, 0, 0)
    ELSE
    LET i1 == FirstPodWithUID(r1.items, podUID, 1) IN
    IF i1 > 0 THEN LookupResult(r1.cache, r1.items[i1], NoErr, r1.queries, 0, 1)
    ELSE
    LET r2 == ForceGetLocalPodListF(r1.cache, t, d, resp2) IN
    IF r2.err # NoErr
    THEN LookupResult(r2.cache, NoPod, r2.err, r1.queries + r2.queries, 1, 1)
    ELSE LET i2 == FirstPodWithUID(r2.items, podUID, 1) IN
         IF i2 > 0
         THEN LookupResult(r2.cache, r2.items[i2], NoErr, r1.queries + r2.queries, 1, 2)
         ELSE LookupResult(r2.cache, NoPod, Errorf("uid not found in pod list"),
                           r1.queries + r2.queries, 1, 2)

(***************************************************************************)
(* The KubeUtil object                                                     *)
(***************************************************************************)
potentialKubeletHosts == <<"A", "B">>

Endpoint(scheme, host, port) == [scheme |-> scheme, host |-> host, port |-> port]
NoEndpoint == Endpoint("", "", "")
\* fmt.Sprintf("https://%s:%d", host, kubernetes_https_kubelet_port)
HttpsEndpoint(h) == Endpoint("https", h, "kubernetes_https_kubelet_port")
\* fmt.Sprintf("http://%s:%d", host, kubernetes_http_kubelet_port)
HttpEndpoint(h) == Endpoint("http", h, "kubernetes_http_kubelet_port")

\* map[string]string as a set of <<key, value>> pairs
MapHas(m, k) == \E kv \in m : kv[1] = k
MapPut(m, k, v) == {kv \in m : kv[1] # k} \cup {<<k, v>>}

\* retry.Retrier as set up by GetKubeUtil (Strategy RetryCount)
NewRetrier == [status |-> "NeedSetup", tryCount |-> 0, lastErr |-> NoErr, busy |-> FALSE]
SetupRetrier(r) == [status |-> "Idle", tryCount |-> 0, lastErr |-> NoErr, busy |-> r.busy]

\* the value of the Authorization entry of kubeletApiRequestHeaders
NoHeader == <<>>
BearerHeader(token) == <<"bearer", token>>

\* newKubeUtil
newKubeUtil ==
    [kubeletHost |-> "",
     kubeletApiEndpoint |-> NoEndpoint,
     authorization |-> NoHeader,
     clientCert |-> FALSE,
     rawConnectionInfo |-> {},
     podListCacheDuration |-> DefaultPodListCacheDuration,
     initRetry |-> NewRetrier]

(***************************************************************************)
(* Configuration read by setupKubeletApiClient:                            *)
(*   tls        whether buildTLSConfig succeeds                            *)
(*   verify     kubelet_tls_verify                                         *)
(*   cert       kubelet_client_crt/key: unset, loadable, or not loadable   *)
(*   tokenPath  kubelet_auth_token_path: unset, readable, or not readable  *)
(*   saToken    the service account token: unavailable, readable, or not   *)
(***************************************************************************)
Configs ==
    [tls : {"ok", "bad"}, verify : BOOLEAN, cert : {"unset", "ok", "bad"},
     tokenPath : {"unset", "ok", "bad"}, saToken : {"unavailable", "ok", "bad"}]

SetupResult(ku, e) == [ku |-> ku, err |-> e]

\* KubeUtil.setupTLS (the transport itself is not modelled)
setupTLS(ku, cfg) ==
    IF cfg.tls = "bad" THEN SetupResult(ku, Errorf("tls config"))
    ELSE LET m1 == MapPut(ku.rawConnectionInfo, "verify_tls",
                          IF cfg.verify THEN "true" ELSE "false")
             m2 == IF cfg.verify THEN MapPut(m1, "ca_cert", "kubelet_client_ca") ELSE m1
         IN SetupResult([ku EXCEPT !.rawConnectionInfo = m2], NoErr)

\* KubeUtil.setCertificates
setCertificates(ku, cfg) ==
    IF cfg.cert = "bad" THEN SetupResult(ku, Errorf("certificates"))
    ELSE SetupResult(
           [ku EXCEPT !.clientCert = TRUE,
                      !.rawConnectionInfo =
                          MapPut(MapPut(@, "client_crt", "kubelet_client_crt"),
                                 "client_key", "kubelet_client_key")],
           NoErr)

\* KubeUtil.setBearerToken: readable is whether the file at tokenPath can be
\* read, token its content
setBearerToken(ku, readable, token) ==
    IF ~readable THEN SetupResult(ku, Errorf("bearer token"))
    ELSE SetupResult(
           [ku EXCEPT !.authorization = BearerHeader(token),
                      !.rawConnectionInfo = MapPut(@, "token", token)],
           NoErr)

\* setupKubeletApiClient trying the token path before the certificates
setupKubeletApiClientTokenFirst(ku, cfg) ==
    LET t == setupTLS(ku, cfg) IN
    IF t.err # NoErr THEN SetupResult(t.ku, NoErr)
    ELSE LET k1 == [t.ku EXCEPT !.clientCert = FALSE] IN
         IF cfg.tokenPath # "unset"
         THEN setBearerToken(k1, cfg.tokenPath = "ok", "token-file")
         ELSE IF cfg.cert # "unset" THEN setCertificates(k1, cfg)
         ELSE IF cfg.saToken # "unavailable"
              THEN setBearerToken(k1, cfg.saToken = "ok", "service-account")
         ELSE SetupResult(k1, NoErr)

\* KubeUtil.setupKubeletApiClient
setupKubeletApiClient(ku, cfg) ==
    LET t == setupTLS(ku, cfg) IN
    IF t.err # NoErr THEN SetupResult(t.ku, NoErr)
    ELSE LET k1 == [t.ku EXCEPT !.clientCert = FALSE] IN
         IF cfg.cert # "unset" THEN setCertificates(k1, cfg)
         ELSE IF cfg.tokenPath # "unset"
              THEN setBearerToken(k1, cfg.tokenPath = "ok", "token-file")
         ELSE IF cfg.saToken # "unavailable"
              THEN setBearerToken(k1, cfg.saToken = "ok", "service-account")
         ELSE SetupResult(k1, NoErr)

\* resetCredentials deleting the header and keeping the map
resetCredentialsKeepsMap(ku) == [ku EXCEPT !.authorization = NoHeader]

\* KubeUtil.resetCredentials
resetCredentials(ku) == [ku EXCEPT !.authorization = NoHeader, !.rawConnectionInfo = {}]

(***************************************************************************)
(* What the network answers during one run of init, per candidate host:    *)
(*   probe  the bare GET / over HTTPS with the insecure client: "ok" or    *)
(*          "err"                                                          *)
(*   pods   the GET /pods over HTTPS with the negotiated client: a status  *)
(*          code, or a transport error, told apart by its text             *)
(*   http   the GET / over HTTP: a status code, or "err"                   *)
(***************************************************************************)
ProbeAnswers == {"ok", "err"}
PodsAnswers == {"200", "401", "500", "403", "x509-san", "x509-unknown-authority", "err"}
HttpAnswers == {"200", "401", "500", "err"}
HostAnswers == [probe : ProbeAnswers, pods : PodsAnswers, http : HttpAnswers]
\* answers to requests init does not send are left at "err"
Asked(a) ==
    /\ a.probe = "err" => a.pods = "err"
    /\ (a.probe = "ok" /\ a.pods \in {"200", "err"}) => a.http = "err"
\* whether init goes on to the next host after these answers
PassesOn(a) == a.http = "err" /\ ~(a.probe = "ok" /\ a.pods \in {"200", "err"})
Envs ==
    {e \in [1..Len(potentialKubeletHosts) -> HostAnswers] :
        \A i \in DOMAIN e :
            /\ Asked(e[i])
            /\ (\E j \in 1..(i - 1) : ~PassesOn(e[j])) =>
                  e[i] = [probe |-> "err", pods |-> "err", http |-> "err"]}

IsStatus(a) == a \in {"200", "401", "500", "403"}

\* one request sent: to which host, over which scheme, for which path, with
\* which Authorization header, and the answer
Contact(h, scheme, path, auth, answer) ==
    [host |-> h, scheme |-> scheme, path |-> path, auth |-> auth, answer |-> answer]

\* what init returns: the object as it leaves it, the error, the requests it
\* sent, and whether it panicked instead of returning
InitResult(ku, e, log, panic) == [ku |-> ku, err |-> e, log |-> log, panic |-> panic]

RECURSIVE InitFrom(_, _, _, _, _)

\* the HTTP attempt of init accepting the host on status 200 only
InitHTTPOnly200(ku, cfg, env, i, log) ==
    LET h == potentialKubeletHosts[i]
        k1 == [resetCredentials(ku) EXCEPT !.kubeletApiEndpoint = HttpEndpoint(h)]
        l1 == Append(log, Contact(h, "http", "/", k1.authorization, env[i].http))
    IN  IF env[i].http = "200" THEN InitResult(k1, NoErr, l1, FALSE)
        ELSE InitFrom(k1, cfg, env, i + 1, l1)

\* the HTTP attempt of init without its resetCredentials
InitHTTPKeepsCredentials(ku, cfg, env, i, log) ==
    LET h == potentialKubeletHosts[i]
        k1 == [ku EXCEPT !.kubeletApiEndpoint = HttpEndpoint(h)]
        l1 == Append(log, Contact(h, "http", "/", k1.authorization, env[i].http))
    IN  IF env[i].http # "err" THEN InitResult(k1, NoErr, l1, FALSE)
        ELSE InitFrom(k1, cfg, env, i + 1, l1)

\* the HTTP attempt of init for host i, and the hosts after it
InitHTTP(ku, cfg, env, i, log) ==
    LET h == potentialKubeletHosts[i]
        k1 == [resetCredentials(ku) EXCEPT !.kubeletApiEndpoint = HttpEndpoint(h)]
        l1 == Append(log, Contact(h, "http", "/", k1.authorization, env[i].http))
    IN  IF env[i].http # "err" THEN InitResult(k1, NoErr, l1, FALSE)
        ELSE InitFrom(k1, cfg, env, i + 1, l1)

\* the loop of init accepting the HTTPS endpoint on any status code
InitFromCommitsAnyStatus(ku, cfg, env, i, log) ==
    IF i > Len(potentialKubeletHosts)
    THEN InitResult(ku, Errorf("unable to find a valid reachable kubelet host"), log, FALSE)
    ELSE
    LET h == potentialKubeletHosts[i]
        s == setupKubeletApiClient([ku EXCEPT !.kubeletHost = h], cfg)
    IN  IF s.err # NoErr THEN InitResult(s.ku, s.err, log, FALSE)
        ELSE
        LET k1 == [s.ku EXCEPT !.kubeletApiEndpoint = HttpsEndpoint(h)]
            l1 == Append(log, Contact(h, "https", "/", NoHeader, env[i].probe))
        IN  IF env[i].probe # "ok" THEN InitHTTP(k1, cfg, env, i, l1)
            ELSE
            LET l2 == Append(l1, Contact(h, "https", kubeletPodPath, k1.authorization,
                                         env[i].pods))
            IN  IF IsStatus(env[i].pods) THEN InitResult(k1, NoErr, l2, FALSE)
                ELSE IF env[i].pods \in {"x509-san", "x509-unknown-authority"}
                     THEN InitHTTP(k1, cfg, env, i, l2)
                ELSE InitResult(k1, NoErr, l2, TRUE)

\* the loop of init from host i on
InitFrom(ku, cfg, env, i, log) ==
    IF i > Len(potentialKubeletHosts)
    THEN InitResult(ku, Errorf("unable to find a valid reachable kubelet host"), log, FALSE)
    ELSE
    LET h == potentialKubeletHosts[i]
        s == setupKubeletApiClient([ku EXCEPT !.kubeletHost = h], cfg)
    IN  IF s.err # NoErr THEN InitResult(s.ku, s.err, log, FALSE)
        ELSE
        LET k1 == [s.ku EXCEPT !.kubeletApiEndpoint = HttpsEndpoint(h)]
            l1 == Append(log, Contact(h, "https", "/", NoHeader, env[i].probe))
        IN  IF env[i].probe # "ok" THEN InitHTTP(k1, cfg, env, i, l1)
            ELSE
            LET l2 == Append(l1, Contact(h, "https", kubeletPodPath, k1.authorization,
                                         env[i].pods))
            IN  IF env[i].pods = "200" THEN InitResult(k1, NoErr, l2, FALSE)
                ELSE IF IsStatus(env[i].pods) THEN InitHTTP(k1, cfg, env, i, l2)
                ELSE IF env[i].pods \in {"x509-san", "x509-unknown-authority"}
                     THEN InitHTTP(k1, cfg, env, i, l2)
                \* any other error: the log call reads response.Request of the
                \* nil response of the failed request
                ELSE InitResult(k1, NoErr, l2, TRUE)

\* KubeUtil.init
init(ku, cfg, env) == InitFrom(ku, cfg, env, 1, <<>>)

(***************************************************************************)
(* retry.Retrier with Strategy RetryCount: TriggerRetry returns at once    *)
(* when the retrier has succeeded or has used up its attempts, and runs    *)
(* one attempt otherwise                                                   *)
(***************************************************************************)
\* the retrier after an attempt that returned e
AfterAttempt(r, e) ==
    IF e = NoErr THEN [r EXCEPT !.status = "Succeeded", !.lastErr = NoErr, !.busy = FALSE]
    ELSE [r EXCEPT !.status = IF r.tryCount + 1 >= RetryCount THEN "FailedTerminal"
                                ELSE "FailedRetryable",
                   !.tryCount = r.tryCount + 1,
                   !.lastErr = e,
                   !.busy = FALSE]

\* whether TriggerRetry runs the attempt method
WillAttempt(r) == r.status \in {"Idle", "FailedRetryable"}

TriggerResult(ku, e, log, ran, panic) ==
    [ku |-> ku, err |-> e, log |-> log, ran |-> ran, panic |-> panic]

\* Retrier.TriggerRetry with AttemptMethod ku.init
TriggerRetry(ku, cfg, env) ==
    IF ku.initRetry.status = "Succeeded" THEN TriggerResult(ku, NoErr, <<>>, FALSE, FALSE)
    ELSE IF ~WillAttempt(ku.initRetry)
         THEN TriggerResult(ku, ku.initRetry.lastErr, <<>>, FALSE, FALSE)
    ELSE LET a == init(ku, cfg, env) IN
         IF a.panic THEN TriggerResult(a.ku, NoErr, a.log, TRUE, TRUE)
         ELSE TriggerResult([a.ku EXCEPT !.initRetry = AfterAttempt(@, a.err)],
                            a.err, a.log, TRUE, FALSE)

(***************************************************************************)
(* State                                                                   *)
(***************************************************************************)
VARIABLES
    now,            \* the clock, in seconds
    cache,          \* the entry of cache.Cache under podListCacheKey
    kubelet,        \* what the kubelet answers to the next /pods query
    lastOp,         \* the last call on the client that returned, and what it did
    globalKubeUtil, \* the package variable: 0 is nil, else an index of kus
    kus,            \* the KubeUtil objects allocated so far
    config,         \* the agent configuration
    lastCall,       \* the last GetKubeUtil that returned, and what it did
    attempts,       \* runs of init since the last ResetGlobalKubeUtil
    crashed,        \* the process died of a panic
    pc,             \* per goroutine: the statement of its call it is at
    self,           \* per goroutine: the object its running init is bound to
    step,           \* the statement the running init is at, and its host
    fetch           \* per goroutine: the pod-list fetch its call is making

cacheVars == <<now, cache, kubelet, lastOp>>
initVars == <<globalKubeUtil, kus, config, lastCall, attempts, crashed>>
concVars == <<pc, self, step, fetch>>
vars == <<now, cache, kubelet, lastOp, globalKubeUtil, kus, config, lastCall,
          attempts, crashed, pc, self, step, fetch>>

\* goroutines calling GetKubeUtil concurrently
NumProcs == 2
Procs == 1..NumProcs

NoOp ==
    [n |-> 0, name |-> "", arg |-> "", pre |-> "empty", items |-> <<>>, pod |-> NoPod,
     err |-> NoErr, queries |-> 0, forced |-> 0, scans |-> 0, hit |-> FALSE]
NoCall == [n |-> 0, name |-> "", err |-> NoErr, client |-> 0, ran |-> FALSE, log |-> <<>>]

\* a position of init: the statement, and the index of the host of its loop
At(a, i) == [at |-> a, host |-> i]
\* init is not running
NotRunning == At("idle", 0)

\* a goroutine that is not fetching the pod list
NoFetch == [forced |-> FALSE, resp |-> RespTransport, before |-> {}, late |-> FALSE]

\* a client whose init went through: the one the callers of Spec use
ReadyConfig ==
    [tls |-> "ok", verify |-> FALSE, cert |-> "unset", tokenPath |-> "unset",
     saToken |-> "ok"]
ReadyEnv == [i \in 1..Len(potentialKubeletHosts) |->
                [probe |-> "ok", pods |-> "200", http |-> "200"]]
ReadyClient ==
    TriggerRetry([newKubeUtil EXCEPT !.initRetry = SetupRetrier(@)], ReadyConfig, ReadyEnv).ku

\* the client the calls of Spec are made on
ku == kus[globalKubeUtil]

(***************************************************************************)
(* Spec: calls on the client, one at a time                                *)
(***************************************************************************)
Init ==
    /\ now = 0
    /\ cache = NoEntry
    /\ kubelet \in Responses
    /\ lastOp = NoOp
    /\ globalKubeUtil = 1
    /\ kus = <<ReadyClient>>
    /\ config = ReadyConfig
    /\ lastCall = NoCall
    /\ attempts = 1
    /\ crashed = FALSE
    /\ pc = [p \in Procs |-> "idle"]
    /\ self = [p \in Procs |-> 0]
    /\ step = NotRunning
    /\ fetch = [p \in Procs |-> NoFetch]

\* time passes
Tick ==
    /\ now < MaxTime
    /\ now' = now + 1
    /\ UNCHANGED <<cache, kubelet, lastOp, initVars, concVars>>

\* the kubelet's pods change, or it starts or stops failing
KubeletChange ==
    /\ kubelet' \in Responses \ {kubelet}
    /\ UNCHANGED <<now, cache, lastOp, initVars, concVars>>

\* the cache as a call finds it
CacheState ==
    IF ~cache.present THEN "empty" ELSE IF CacheHit(cache, now) THEN "valid" ELSE "expired"

Returned(name, arg, items, pod, e, q, f, s, hit) ==
    [n |-> 1 - lastOp.n, name |-> name, arg |-> arg, pre |-> CacheState, items |-> items,
     pod |-> pod, err |-> e, queries |-> q, forced |-> f, scans |-> s, hit |-> hit]

\* ResetCache()
ResetCache ==
    /\ cache' = ResetCacheF(cache)
    /\ lastOp' = Returned("ResetCache", "", <<>>, NoPod, NoErr, 0, 0, 0, FALSE)
    /\ UNCHANGED <<now, kubelet, initVars, concVars>>

\* ku.SetPodListCacheDuration(d)
SetPodListCacheDuration(d) ==
    /\ kus' = [kus EXCEPT ![globalKubeUtil].podListCacheDuration = d]
    /\ lastOp' = Returned("SetPodListCacheDuration", "", <<>>, NoPod, NoErr, 0, 0, 0, FALSE)
    /\ UNCHANGED <<now, cache, kubelet, globalKubeUtil, config, lastCall, attempts,
                   crashed, concVars>>

\* ku.GetLocalPodList()
GetLocalPodList ==
    \E r \in {GetLocalPodListF(cache, now, ku.podListCacheDuration, kubelet)} :
    /\ cache' = r.cache
    /\ lastOp' = Returned("GetLocalPodList", "", r.items, NoPod, r.err, r.queries, 0, 0,
                          r.hit)
    /\ UNCHANGED <<now, kubelet, initVars, concVars>>

\* ku.ForceGetLocalPodList()
ForceGetLocalPodList ==
    \E r \in {ForceGetLocalPodListF(cache, now, ku.podListCacheDuration, kubelet)} :
    /\ cache' = r.cache
    /\ lastOp' = Returned("ForceGetLocalPodList", "", r.items, NoPod, r.err, r.queries,
                          1, 0, r.hit)
    /\ UNCHANGED <<now, kubelet, initVars, concVars>>

\* ku.GetPodForContainerID(containerID): the first fetch is answered by
\* kubelet, the forced one by kubelet', which may differ
GetPodForContainerID(containerID) ==
    /\ kubelet' \in Responses
    /\ \E r \in {GetPodForContainerIDF(cache, now, ku.podListCacheDuration, containerID,
                                       kubelet, kubelet')} :
       /\ r.forced = 0 => kubelet' = kubelet
       /\ cache' = r.cache
       /\ lastOp' = Returned("GetPodForContainerID", containerID, <<>>, r.pod, r.err,
                             r.queries, r.forced, r.scans, FALSE)
    /\ UNCHANGED <<now, initVars, concVars>>

\* ku.GetPodFromUID(podUID): the first fetch is answered by kubelet, the
\* forced one by kubelet', which may differ
GetPodFromUID(podUID) ==
    /\ kubelet' \in Responses
    /\ \E r \in {GetPodFromUIDF(cache, now, ku.podListCacheDuration, podUID,
                                kubelet, kubelet')} :
       /\ r.forced = 0 => kubelet' = kubelet
       /\ cache' = r.cache
       /\ lastOp' = Returned("GetPodFromUID", podUID, <<>>, r.pod, r.err,
                             r.queries, r.forced, r.scans, FALSE)
    /\ UNCHANGED <<now, initVars, concVars>>

Next ==
    \/ Tick
    \/ KubeletChange
    \/ ResetCache
    \/ \E d \in TTLs : SetPodListCacheDuration(d)
    \/ GetLocalPodList
    \/ ForceGetLocalPodList
    \/ \E id \in ContainerIDs : GetPodForContainerID(id)
    \/ \E uid \in PodUIDs : GetPodFromUID(uid)

Spec == Init /\ [][Next]_vars

(***************************************************************************)
(* Properties of the cache and the lookups (under Spec)                    *)
(***************************************************************************)
\* a step in which the call named name returns
Returns(name) == lastOp'.n # lastOp.n /\ lastOp'.name = name

\* the kubelet answer a makes a fetch succeed
Fetchable(a) == ~a.err /\ a.code = StatusOK /\ a.parses

HasUID(l, uid) == \E i \in DOMAIN l : l[i].uid = uid
HasContainer(l, id) ==
    \E i \in DOMAIN l : \E k \in DOMAIN l[i].containers : l[i].containers[k] = id

\* C1: an entry written at t0 with TTL d is served at t1, without a kubelet
\* query, iff t1 - t0 < d; any other read of it makes exactly one query.  The
\* entry a successful query writes carries the time of the call and the TTL
\* of the client at that time.
C1_ServedIffYoungerThanTTL ==
    [][Returns("GetLocalPodList") =>
         /\ cache.present =>
              /\ (lastOp'.queries = 0 /\ lastOp'.err = NoErr /\ lastOp'.items = cache.items)
                     <=> (now - cache.stored < cache.ttl)
              /\ ~(now - cache.stored < cache.ttl) => lastOp'.queries = 1
         /\ (lastOp'.queries = 1 /\ lastOp'.err = NoErr) =>
              cache' = [present |-> TRUE, items |-> lastOp'.items, stored |-> now,
                        ttl |-> ku.podListCacheDuration]
      ]_vars

\* C1 witness: a read served, without a query, from an entry stored at an
\* earlier time
C1_Witness ==
    /\ lastOp.name = "GetLocalPodList"
    /\ lastOp.pre = "valid"
    /\ lastOp.queries = 0
    /\ now > cache.stored

\* C2: ForceGetLocalPodList, and a GetLocalPodList that follows ResetCache,
\* make one kubelet query and return what the kubelet answered, never the
\* cached list
C2_ForcedAlwaysQueries ==
    [][(Returns("ForceGetLocalPodList")
          \/ (lastOp.name = "ResetCache" /\ Returns("GetLocalPodList"))) =>
         /\ lastOp'.queries = 1
         /\ ~lastOp'.hit
         /\ Fetchable(kubelet) <=> lastOp'.err = NoErr
         /\ lastOp'.err = NoErr => lastOp'.items = kubelet.items
      ]_vars

\* C2 witness: a forced refresh called while the cached entry was still
\* valid
C2_Witness ==
    /\ lastOp.name = "ForceGetLocalPodList"
    /\ lastOp.pre = "valid"
    /\ lastOp.queries = 1

\* C3: GetPodForContainerID("") fails with the input error and makes no
\* kubelet query, whatever the cache holds
C3_EmptyContainerID ==
    (lastOp.name = "GetPodForContainerID" /\ lastOp.arg = "") =>
        /\ lastOp.err = Errorf("containerID is empty")
        /\ lastOp.queries = 0

\* the list the first GetLocalPodList of a lookup obtains, if it obtains one
ObtainsFirst == CacheHit(cache, now) \/ Fetchable(kubelet)
FirstItems == IF CacheHit(cache, now) THEN cache.items ELSE kubelet.items
FirstQueries == IF CacheHit(cache, now) THEN 0 ELSE 1

\* C4 as stated: a non-empty UID missing from the first list leads to exactly
\* one forced refresh (one more query) and one re-scan; no forced refresh
\* otherwise
C4_Original ==
    [][\A uid \in PodUIDs \ {""} :
         (Returns("GetPodFromUID") /\ lastOp'.arg = uid) =>
            IF ObtainsFirst /\ ~HasUID(FirstItems, uid)
            THEN /\ lastOp'.forced = 1
                 /\ lastOp'.queries = FirstQueries + 1
                 /\ lastOp'.scans = 2
            ELSE lastOp'.forced = 0
      ]_vars

\* C4 amended: a non-empty UID missing from the first list leads to exactly
\* one forced refresh (one more query); the refreshed list is scanned once
\* if the forced fetch succeeded and not at all if it failed; no forced
\* refresh when the first list holds the UID or the first fetch fails
C4_OneForcedRefresh ==
    [][\A uid \in PodUIDs \ {""} :
         (Returns("GetPodFromUID") /\ lastOp'.arg = uid) =>
            IF ObtainsFirst /\ ~HasUID(FirstItems, uid)
            THEN /\ lastOp'.forced = 1
                 /\ lastOp'.queries = FirstQueries + 1
                 /\ lastOp'.scans = IF Fetchable(kubelet') THEN 2 ELSE 1
                 /\ ~Fetchable(kubelet') => lastOp'.err # NoErr
            ELSE /\ lastOp'.forced = 0
                 /\ lastOp'.queries = FirstQueries
                 /\ lastOp'.scans = IF ObtainsFirst THEN 1 ELSE 0
      ]_vars

\* C4 witness: a lookup whose first list came from the cache, missed, and
\* was followed by one forced refresh and a second scan
C4_Witness ==
    /\ lastOp.name = "GetPodFromUID"
    /\ lastOp.pre = "valid"
    /\ lastOp.forced = 1
    /\ lastOp.queries = 1
    /\ lastOp.scans = 2

\* C5: a UID still absent after the forced refresh is reported with an error
\* that errors.IsNotFound recognises
C5_NotFoundError ==
    (/\ lastOp.name = "GetPodFromUID"
     /\ lastOp.forced = 1
     /\ lastOp.scans = 2
     /\ lastOp.err # NoErr) => IsNotFound(lastOp.err)

\* the pod searchPodForContainerID is to return from l
IsFirstWithContainer(l, id, p) ==
    \E i \in DOMAIN l :
        /\ l[i] = p
        /\ HasContainer(<<l[i]>>, id)
        /\ \A j \in 1..(i - 1) : ~HasContainer(<<l[j]>>, id)

\* C6 as stated: a non-empty container id missing from the first list leads
\* to one forced refresh and one re-scan, and the call returns the pod of the
\* refreshed list that runs the container, or else a not-found error; no
\* forced refresh otherwise
C6_Original ==
    [][\A id \in ContainerIDs \ {""} :
         (Returns("GetPodForContainerID") /\ lastOp'.arg = id) =>
            IF ObtainsFirst /\ ~HasContainer(FirstItems, id)
            THEN /\ lastOp'.forced = 1
                 /\ lastOp'.scans = 2
                 /\ IF Fetchable(kubelet') /\ HasContainer(kubelet'.items, id)
                    THEN /\ lastOp'.err = NoErr
                         /\ IsFirstWithContainer(kubelet'.items, id, lastOp'.pod)
                    ELSE IsNotFound(lastOp'.err)
            ELSE lastOp'.forced = 0
      ]_vars

\* C6 amended: a non-empty container id missing from the first list leads to
\* exactly one forced refresh; if the forced fetch succeeds the refreshed
\* list is scanned once and the call returns the pod that runs the container
\* or else a not-found error; if the forced fetch fails the call returns that
\* error without a second scan; no forced refresh when the first scan finds
\* the container or the first fetch fails
C6_OneForcedRefresh ==
    [][\A id \in ContainerIDs \ {""} :
         (Returns("GetPodForContainerID") /\ lastOp'.arg = id) =>
            IF ObtainsFirst /\ ~HasContainer(FirstItems, id)
            THEN /\ lastOp'.forced = 1
                 /\ lastOp'.queries = FirstQueries + 1
                 /\ IF Fetchable(kubelet')
                    THEN /\ lastOp'.scans = 2
                         /\ IF HasContainer(kubelet'.items, id)
                            THEN /\ lastOp'.err = NoErr
                                 /\ IsFirstWithContainer(kubelet'.items, id, lastOp'.pod)
                            ELSE IsNotFound(lastOp'.err)
                    ELSE /\ lastOp'.scans = 1
                         /\ lastOp'.err # NoErr
                         /\ ~IsNotFound(lastOp'.err)
            ELSE /\ lastOp'.forced = 0
                 /\ lastOp'.queries = FirstQueries
                 /\ ObtainsFirst =>
                      /\ lastOp'.err = NoErr
                      /\ IsFirstWithContainer(FirstItems, id, lastOp'.pod)
                 /\ ~ObtainsFirst => (lastOp'.err # NoErr /\ lastOp'.scans = 0)
      ]_vars

\* C6 witness: the container was not in the cached list, the forced refresh
\* brought a list that has it, and its pod was returned
C6_Witness ==
    /\ lastOp.name = "GetPodForContainerID"
    /\ lastOp.arg # ""
    /\ lastOp.pre = "valid"
    /\ lastOp.forced = 1
    /\ lastOp.scans = 2
    /\ lastOp.err = NoErr
    /\ HasContainer(<<lastOp.pod>>, lastOp.arg)

\* C11: a GetLocalPodList or ForceGetLocalPodList whose kubelet query fails
\* (transport error, status other than 200, body that does not parse) leaves
\* the cache as it was before the call
C11_FailedFetchKeepsCache ==
    [][((Returns("GetLocalPodList") \/ Returns("ForceGetLocalPodList"))
          /\ lastOp'.queries = 1
          /\ lastOp'.err # NoErr) => cache' = cache
      ]_vars

(***************************************************************************)
(* SpecInit: GetKubeUtil and ResetGlobalKubeUtil, one call at a time       *)
(***************************************************************************)
\* the configurations SpecInit starts from
InitConfigs ==
    {c \in Configs :
        /\ ~c.verify /\ c.tokenPath = "unset" /\ c.saToken # "bad"
        /\ c.cert # "unset" => c.saToken = "ok"
        /\ c.tls = "bad" => (c.cert = "unset" /\ c.saToken = "ok")}

CallResult(g, objs, e, ran, log, panic) ==
    [global |-> g, kus |-> objs, err |-> e, client |-> IF e = NoErr THEN g ELSE 0,
     ran |-> ran, log |-> log, panic |-> panic]

\* a KubeUtil as GetKubeUtil creates it
FreshKubeUtil == [newKubeUtil EXCEPT !.initRetry = SetupRetrier(@)]

\* GetKubeUtil setting the retrier up again on every call
GetKubeUtilResetsRetrier(g, objs, cfg, env) ==
    LET objs1 == IF g = 0 THEN Append(objs, FreshKubeUtil)
                 ELSE [objs EXCEPT ![g].initRetry = SetupRetrier(@)]
        g1 == IF g = 0 THEN Len(objs1) ELSE g
        t == TriggerRetry(objs1[g1], cfg, env)
    IN  CallResult(g1, [objs1 EXCEPT ![g1] = t.ku], t.err, t.ran, t.log, t.panic)

\* GetKubeUtil creating a KubeUtil on every call
GetKubeUtilAlwaysNew(g, objs, cfg, env) ==
    LET objs1 == Append(objs, FreshKubeUtil)
        g1 == Len(objs1)
        t == TriggerRetry(objs1[g1], cfg, env)
    IN  CallResult(g1, [objs1 EXCEPT ![g1] = t.ku], t.err, t.ran, t.log, t.panic)

\* GetKubeUtil, called with globalKubeUtil = g and the objects objs
GetKubeUtilF(g, objs, cfg, env) ==
    LET objs1 == IF g = 0 THEN Append(objs, FreshKubeUtil) ELSE objs
        g1 == IF g = 0 THEN Len(objs1) ELSE g
        t == TriggerRetry(objs1[g1], cfg, env)
    IN  CallResult(g1, [objs1 EXCEPT ![g1] = t.ku], t.err, t.ran, t.log, t.panic)

InitI ==
    /\ now = 0
    /\ cache = NoEntry
    /\ kubelet = RespOK(<<>>)
    /\ lastOp = NoOp
    /\ globalKubeUtil = 0
    /\ kus = <<>>
    /\ config \in InitConfigs
    /\ lastCall = NoCall
    /\ attempts = 0
    /\ crashed = FALSE
    /\ pc = [p \in Procs |-> "idle"]
    /\ self = [p \in Procs |-> 0]
    /\ step = NotRunning
    /\ fetch = [p \in Procs |-> NoFetch]

CallReturned(r) ==
    [n |-> 1 - lastCall.n, name |-> "GetKubeUtil", err |-> r.err, client |-> r.client,
     ran |-> r.ran, log |-> r.log]

\* the environment of a call that sends no request
NoAnswers ==
    [i \in 1..Len(potentialKubeletHosts) |-> [probe |-> "err", pods |-> "err", http |-> "err"]]

\* GetKubeUtil(), while the network answers env
GetKubeUtil(env) ==
    /\ ~crashed
    /\ attempts <= RetryCount
    /\ (globalKubeUtil # 0 /\ ~WillAttempt(kus[globalKubeUtil].initRetry)) => env = NoAnswers
    /\ \E r \in {GetKubeUtilF(globalKubeUtil, kus, config, env)} :
       /\ globalKubeUtil' = r.global
       /\ kus' = r.kus
       /\ attempts' = IF r.ran THEN attempts + 1 ELSE attempts
       /\ crashed' = r.panic
       /\ lastCall' = IF r.panic THEN lastCall ELSE CallReturned(r)
    /\ UNCHANGED <<cacheVars, config, concVars>>

\* ResetGlobalKubeUtil(): no caller keeps the old client
ResetGlobalKubeUtil ==
    /\ ~crashed
    /\ globalKubeUtil # 0
    /\ globalKubeUtil' = 0
    /\ kus' = <<>>
    /\ attempts' = 0
    /\ lastCall' = [NoCall EXCEPT !.n = 1 - lastCall.n, !.name = "ResetGlobalKubeUtil"]
    /\ UNCHANGED <<cacheVars, config, crashed, concVars>>

NextI ==
    \/ \E env \in Envs : GetKubeUtil(env)
    \/ ResetGlobalKubeUtil

SpecInit == InitI /\ [][NextI]_vars

(***************************************************************************)
(* Properties of GetKubeUtil and init (under SpecInit)                     *)
(***************************************************************************)
HostIndex(h) == CHOOSE i \in DOMAIN potentialKubeletHosts : potentialKubeletHosts[i] = h

\* the contact on which init commits the endpoint it has just set
Commits(c) ==
    \/ c.scheme = "https" /\ c.path = kubeletPodPath /\ c.answer = "200"
    \/ c.scheme = "http" /\ c.path = "/" /\ c.answer # "err"

\* the requests of log are sent host by host in list order, HTTPS before
\* HTTP, and every host is first asked GET / over HTTPS
InListOrder(log) ==
    /\ \A i, j \in DOMAIN log :
         i < j =>
           /\ HostIndex(log[i].host) <= HostIndex(log[j].host)
           /\ log[i].host = log[j].host => ~(log[i].scheme = "http" /\ log[j].scheme = "https")
    /\ \A j \in DOMAIN log :
         (j = 1 \/ log[j - 1].host # log[j].host) =>
            (log[j].scheme = "https" /\ log[j].path = "/")
    /\ \A j \in DOMAIN log :
         log[j].path = kubeletPodPath =>
            (j > 1 /\ log[j - 1] = Contact(log[j].host, "https", "/", NoHeader, "ok"))

\* every host before the k-th was tried over HTTPS and over HTTP
TriedBefore(log, k) ==
    \A i \in 1..(k - 1) :
        /\ \E j \in DOMAIN log :
             log[j].host = potentialKubeletHosts[i] /\ log[j].scheme = "https"
        /\ \E j \in DOMAIN log :
             log[j].host = potentialKubeletHosts[i] /\ log[j].scheme = "http"

\* the case of hosts [A, B]: the authenticated HTTPS query to A is answered
\* 401 and the HTTP probe to A succeeds
CaseUnauthorizedThenHTTP(log) ==
    /\ Len(log) >= 3
    /\ log[1] = Contact("A", "https", "/", NoHeader, "ok")
    /\ log[2].host = "A" /\ log[2].path = kubeletPodPath /\ log[2].answer = "401"
    /\ log[3].host = "A" /\ log[3].scheme = "http" /\ log[3].answer # "err"

\* C7: init asks the hosts in list order, HTTPS before HTTP; when it
\* succeeds, the endpoint is that of its last request, which is the first
\* request of the run that commits, so that no later host is contacted; with
\* hosts [A, B], 401 on A's authenticated query and a successful HTTP probe
\* of A, the endpoint is http://A:<http port> and B is not contacted
C7_FirstAcceptableEndpoint ==
    (lastCall.name = "GetKubeUtil" /\ lastCall.ran) =>
        LET log == lastCall.log IN
        /\ InListOrder(log)
        /\ \A j \in 1..(Len(log) - 1) : ~Commits(log[j])
        /\ lastCall.err = NoErr =>
             /\ Len(log) > 0
             /\ Commits(log[Len(log)])
             /\ TriedBefore(log, HostIndex(log[Len(log)].host))
             /\ kus[lastCall.client].kubeletHost = log[Len(log)].host
             /\ kus[lastCall.client].kubeletApiEndpoint =
                  IF log[Len(log)].scheme = "https"
                  THEN HttpsEndpoint(log[Len(log)].host)
                  ELSE HttpEndpoint(log[Len(log)].host)
        /\ CaseUnauthorizedThenHTTP(log) =>
             /\ lastCall.err = NoErr
             /\ kus[lastCall.client].kubeletApiEndpoint = HttpEndpoint("A")
             /\ \A j \in DOMAIN log : log[j].host # "B"

\* C7 witness: the run with 401 on A's authenticated query and an answer to
\* the HTTP probe of A
C7_Witness ==
    /\ lastCall.name = "GetKubeUtil"
    /\ lastCall.ran
    /\ CaseUnauthorizedThenHTTP(lastCall.log)
    /\ lastCall.err = NoErr

\* the call of GetKubeUtil returns in this step
CallReturns == lastCall'.n # lastCall.n /\ lastCall'.name = "GetKubeUtil"

\* C8: between two ResetGlobalKubeUtil init runs at most RetryCount times;
\* once it has run and failed RetryCount times, GetKubeUtil returns the error
\* without running it and without a request to any host
C8_AtMostTenAttempts ==
    [][/\ attempts' <= RetryCount
       /\ (/\ CallReturns
           /\ globalKubeUtil # 0
           /\ attempts = RetryCount
           /\ kus[globalKubeUtil].initRetry.status # "Succeeded") =>
              /\ ~lastCall'.ran
              /\ lastCall'.log = <<>>
              /\ lastCall'.err # NoErr
              /\ lastCall'.client = 0
              /\ attempts' = attempts
      ]_vars

\* C8 witness: a call returned the error without running init, ten runs
\* having failed
C8_Witness ==
    /\ lastCall.name = "GetKubeUtil"
    /\ attempts = RetryCount
    /\ ~lastCall.ran
    /\ lastCall.err # NoErr

\* C9: once an attempt has succeeded, and until ResetGlobalKubeUtil, every
\* GetKubeUtil returns the same client without running init, and the host
\* and endpoint of the client do not change
C9_SucceededIsTerminal ==
    [][(/\ globalKubeUtil # 0
        /\ kus[globalKubeUtil].initRetry.status = "Succeeded"
        /\ lastCall'.name # "ResetGlobalKubeUtil") =>
           /\ globalKubeUtil' = globalKubeUtil
           /\ kus'[globalKubeUtil].initRetry.status = "Succeeded"
           /\ kus'[globalKubeUtil].kubeletHost = kus[globalKubeUtil].kubeletHost
           /\ kus'[globalKubeUtil].kubeletApiEndpoint = kus[globalKubeUtil].kubeletApiEndpoint
           /\ CallReturns =>
                /\ ~lastCall'.ran
                /\ lastCall'.log = <<>>
                /\ lastCall'.err = NoErr
                /\ lastCall'.client = globalKubeUtil
           /\ attempts' = attempts
      ]_vars

\* C9 witness: a call on a client whose init had succeeded after failed
\* attempts returned it without running init
C9_Witness ==
    /\ lastCall.name = "GetKubeUtil"
    /\ ~lastCall.ran
    /\ lastCall.err = NoErr
    /\ lastCall.client = globalKubeUtil
    /\ attempts > 1

\* C12: init has no panic path: whatever the hosts answer, and in particular
\* when the bare HTTPS probe is answered and the authenticated query then
\* fails with a transport error of any class, the process does not die and
\* GetKubeUtil returns
C12_NoPanic == ~crashed

\* C17: with a client certificate or key that cannot be loaded, a run of
\* init still sends the plain HTTP probe to the first host, and returns an
\* error only after the HTTP probe of every host has failed
C17_CertificateErrorAbsorbed ==
    (/\ lastCall.name = "GetKubeUtil"
     /\ lastCall.ran
     /\ config.tls = "ok"
     /\ config.cert = "bad") =>
        LET log == lastCall.log IN
        /\ \E j \in DOMAIN log :
              log[j].host = potentialKubeletHosts[1] /\ log[j].scheme = "http"
        /\ lastCall.err # NoErr =>
              \A i \in DOMAIN potentialKubeletHosts :
                  \E j \in DOMAIN log :
                      /\ log[j].host = potentialKubeletHosts[i]
                      /\ log[j].scheme = "http"
                      /\ log[j].answer = "err"

(***************************************************************************)
(* SpecConc: goroutines in GetKubeUtil, one statement at a time.  A        *)
(* goroutine whose TriggerRetry finds an attempt of the same retrier in    *)
(* flight waits for it.  What the calls return is not recorded here.       *)
(***************************************************************************)
\* what the network may answer during a run of init of SpecConc
ConcEnvs ==
    {e \in Envs : \A i \in DOMAIN e : e[i].pods \in {"200", "err"} /\ e[i].http \in {"200", "err"}}

InitC ==
    /\ now = 0
    /\ cache = NoEntry
    /\ kubelet = RespOK(<<>>)
    /\ lastOp = NoOp
    /\ globalKubeUtil = 0
    /\ kus = <<>>
    /\ config = ReadyConfig
    /\ lastCall = NoCall
    /\ attempts = 0
    /\ crashed = FALSE
    /\ pc = [p \in Procs |-> "idle"]
    /\ self = [p \in Procs |-> 0]
    /\ step = NotRunning
    /\ fetch = [p \in Procs |-> NoFetch]

\* goroutine p calls GetKubeUtil
Enter(p) ==
    /\ ~crashed
    /\ pc[p] = "idle"
    /\ pc' = [pc EXCEPT ![p] = "check"]
    /\ UNCHANGED <<cacheVars, initVars, self, step, fetch>>

\* if globalKubeUtil == nil
CheckNil(p) ==
    /\ ~crashed
    /\ pc[p] = "check"
    /\ pc' = [pc EXCEPT ![p] = IF globalKubeUtil = 0 THEN "new" ELSE "trigger"]
    /\ UNCHANGED <<cacheVars, initVars, self, step, fetch>>

\* globalKubeUtil = newKubeUtil()
AssignNew(p) ==
    /\ ~crashed
    /\ pc[p] = "new"
    /\ kus' = Append(kus, newKubeUtil)
    /\ globalKubeUtil' = Len(kus) + 1
    /\ pc' = [pc EXCEPT ![p] = "setup"]
    /\ UNCHANGED <<cacheVars, config, lastCall, attempts, crashed, self, step, fetch>>

\* globalKubeUtil.initRetry.SetupRetrier(...)
Setup(p) ==
    /\ ~crashed
    /\ pc[p] = "setup"
    /\ kus' = [kus EXCEPT ![globalKubeUtil].initRetry = SetupRetrier(@)]
    /\ pc' = [pc EXCEPT ![p] = "trigger"]
    /\ UNCHANGED <<cacheVars, globalKubeUtil, config, lastCall, attempts, crashed, self,
                   step, fetch>>

\* globalKubeUtil.initRetry.TriggerRetry(): returns at once, or starts an
\* attempt
Trigger(p) ==
    /\ ~crashed
    /\ pc[p] = "trigger"
    /\ LET r == kus[globalKubeUtil].initRetry IN
       IF WillAttempt(r)
       THEN /\ ~r.busy
            /\ kus' = [kus EXCEPT ![globalKubeUtil].initRetry.busy = TRUE]
            /\ self' = [self EXCEPT ![p] = globalKubeUtil]
            /\ pc' = [pc EXCEPT ![p] = "init"]
       ELSE /\ pc' = [pc EXCEPT ![p] = "idle"]
            /\ UNCHANGED <<kus, self>>
    /\ UNCHANGED <<cacheVars, globalKubeUtil, config, lastCall, attempts, crashed, step,
                   fetch>>

\* the attempt of goroutine p ends: init has run on the object of its retrier
\* while the network answered env, and GetKubeUtil returns
Attempted(p, env) ==
    /\ ~crashed
    /\ pc[p] = "init"
    /\ \E a \in {init(kus[self[p]], config, env)} :
       /\ crashed' = a.panic
       /\ kus' = [kus EXCEPT ![self[p]] =
                     [a.ku EXCEPT !.initRetry = AfterAttempt(@, a.err)]]
    /\ self' = [self EXCEPT ![p] = 0]
    /\ pc' = [pc EXCEPT ![p] = "idle"]
    /\ UNCHANGED <<cacheVars, globalKubeUtil, config, lastCall, attempts, step, fetch>>

NextC ==
    \E p \in Procs :
        \/ Enter(p)
        \/ CheckNil(p)
        \/ AssignNew(p)
        \/ Setup(p)
        \/ Trigger(p)
        \/ \E env \in ConcEnvs : Attempted(p, env)

SpecConc == InitC /\ [][NextC]_vars

\* C10: at most one run of init is in progress at any time
C10_SingleAttempt == Cardinality({p \in Procs : pc[p] = "init"}) <= 1

(***************************************************************************)
(* Accessors of an initialised client, as functions of the object k        *)
(***************************************************************************)
kubeletMetricsPath == "/metrics"

\* KubeUtil.GetKubeletApiEndpoint
GetKubeletApiEndpointF(k) == k.kubeletApiEndpoint

\* KubeUtil.GetRawConnectionInfo: the object as the call leaves it; the map
\* returned is its rawConnectionInfo
GetRawConnectionInfoF(k) ==
    IF MapHas(k.rawConnectionInfo, "url") THEN k
    ELSE [k EXCEPT !.rawConnectionInfo = MapPut(@, "url", k.kubeletApiEndpoint)]

\* KubeUtil.doKubeletRequest: the request sent, with the headers of the
\* client, and its answer
doKubeletRequest(k, path, answer) ==
    Contact(k.kubeletApiEndpoint.host, k.kubeletApiEndpoint.scheme, path, k.authorization,
            answer)

QueryResult(sent, code, e) == [sent |-> sent, code |-> code, err |-> e]

\* KubeUtil.QueryKubelet: the status code is "" when there is none
QueryKubeletF(k, path, answer) ==
    LET r == doKubeletRequest(k, path, answer) IN
    IF r.answer = "err" THEN QueryResult(r, "", Errorf("query"))
    ELSE QueryResult(r, r.answer, NoErr)

\* KubeUtil.GetRawMetrics
GetRawMetricsF(k, answer) ==
    LET q == QueryKubeletF(k, kubeletMetricsPath, answer) IN
    IF q.err # NoErr THEN QueryResult(q.sent, "", Errorf("error performing kubelet query"))
    ELSE IF q.code # "200" THEN QueryResult(q.sent, q.code, Errorf("unexpected status code"))
    ELSE QueryResult(q.sent, q.code, NoErr)

(***************************************************************************)
(* SpecProbe: one goroutine in GetKubeUtil, with init run statement by     *)
(* statement on the object of globalKubeUtil, under every configuration;   *)
(* once init has succeeded, the accessors are called on the client         *)
(***************************************************************************)
\* runs of init the specification follows
MaxAttempts == 2

\* paths QueryKubelet is called with
QueryPaths == {"/healthz", kubeletPodPath}

InitP ==
    /\ now = 0
    /\ cache = NoEntry
    /\ kubelet = RespOK(<<>>)
    /\ lastOp = NoOp
    /\ globalKubeUtil = 1
    /\ kus = <<FreshKubeUtil>>
    /\ config \in Configs
    /\ lastCall = NoCall
    /\ attempts = 0
    /\ crashed = FALSE
    /\ pc = [p \in Procs |-> "idle"]
    /\ self = [p \in Procs |-> 0]
    /\ step = NotRunning
    /\ fetch = [p \in Procs |-> NoFetch]

\* init returns e and leaves the object k; the retrier records the outcome
\* and GetKubeUtil returns
InitReturns(k, e) ==
    /\ kus' = [kus EXCEPT ![globalKubeUtil] = [k EXCEPT !.initRetry = AfterAttempt(@, e)]]
    /\ step' = NotRunning
    /\ lastCall' = [n |-> 1 - lastCall.n, name |-> "GetKubeUtil", err |-> e,
                    client |-> IF e = NoErr THEN globalKubeUtil ELSE 0, ran |-> TRUE,
                    log |-> <<>>]

\* GetKubeUtil: TriggerRetry starts a run of init
StartInit ==
    /\ ~crashed
    /\ step = NotRunning
    /\ WillAttempt(ku.initRetry)
    /\ attempts < MaxAttempts
    /\ attempts' = attempts + 1
    /\ step' = At("setup", 1)
    /\ UNCHANGED <<cacheVars, globalKubeUtil, kus, config, lastCall, crashed, pc, self, fetch>>

\* ku.kubeletHost = h; err := ku.setupKubeletApiClient(); on an error init
\* returns it, else the endpoint becomes the HTTPS one
Negotiate ==
    /\ ~crashed
    /\ step.at = "setup"
    /\ \E s \in {setupKubeletApiClient(
                   [ku EXCEPT !.kubeletHost = potentialKubeletHosts[step.host]], config)} :
         IF s.err # NoErr THEN InitReturns(s.ku, s.err)
         ELSE /\ kus' = [kus EXCEPT ![globalKubeUtil] =
                           [s.ku EXCEPT !.kubeletApiEndpoint = HttpsEndpoint(s.ku.kubeletHost)]]
              /\ step' = At("probe", step.host)
              /\ UNCHANGED lastCall
    /\ UNCHANGED <<cacheVars, globalKubeUtil, config, attempts, crashed, pc, self, fetch>>

\* c.Get(ku.kubeletApiEndpoint + "/") with the insecure client
ProbeHTTPS(answer) ==
    /\ ~crashed
    /\ step.at = "probe"
    /\ step' = At(IF answer = "ok" THEN "pods" ELSE "reset", step.host)
    /\ UNCHANGED <<cacheVars, initVars, pc, self, fetch>>

\* ku.doKubeletRequest(kubeletPodPath) and the branches on its answer
QueryPods(answer) ==
    /\ ~crashed
    /\ step.at = "pods"
    /\ \E r \in {doKubeletRequest(ku, kubeletPodPath, answer)} :
         IF r.answer = "200"
         THEN InitReturns(ku, NoErr) /\ UNCHANGED crashed
         ELSE IF IsStatus(r.answer) \/ r.answer \in {"x509-san", "x509-unknown-authority"}
         THEN /\ step' = At("reset", step.host)
              /\ UNCHANGED <<kus, lastCall, crashed>>
         \* any other error: the log call reads response.Request of the nil
         \* response
         ELSE /\ crashed' = TRUE
              /\ UNCHANGED <<kus, lastCall, step>>
    /\ UNCHANGED <<cacheVars, globalKubeUtil, config, attempts, pc, self, fetch>>

\* ku.resetCredentials(); the endpoint becomes the HTTP one
ResetAndTryHTTP ==
    /\ ~crashed
    /\ step.at = "reset"
    /\ kus' = [kus EXCEPT ![globalKubeUtil] =
                 [resetCredentials(ku) EXCEPT !.kubeletApiEndpoint = HttpEndpoint(ku.kubeletHost)]]
    /\ step' = At("http", step.host)
    /\ UNCHANGED <<cacheVars, globalKubeUtil, config, lastCall, attempts, crashed, pc, self,
                   fetch>>

\* ku.doKubeletRequest("/") over HTTP: init returns, or goes to the next host
ProbeHTTP(answer) ==
    /\ ~crashed
    /\ step.at = "http"
    /\ \E r \in {doKubeletRequest(ku, "/", answer)} :
         IF r.answer # "err" THEN InitReturns(ku, NoErr)
         ELSE IF step.host < Len(potentialKubeletHosts)
         THEN /\ step' = At("setup", step.host + 1)
              /\ UNCHANGED <<kus, lastCall>>
         ELSE InitReturns(ku, Errorf("unable to find a valid reachable kubelet host"))
    /\ UNCHANGED <<cacheVars, globalKubeUtil, config, attempts, crashed, pc, self, fetch>>

\* GetKubeUtil has returned the client
Initialised == ~crashed /\ step = NotRunning /\ ku.initRetry.status = "Succeeded"

\* ku.GetRawConnectionInfo()
GetRawConnectionInfo ==
    /\ Initialised
    /\ kus' = [kus EXCEPT ![globalKubeUtil] = GetRawConnectionInfoF(ku)]
    /\ lastOp' = Returned("GetRawConnectionInfo", "", <<>>, NoPod, NoErr, 0, 0, 0, FALSE)
    /\ UNCHANGED <<now, cache, kubelet, globalKubeUtil, config, lastCall, attempts, crashed,
                   concVars>>

\* ku.GetKubeletApiEndpoint()
GetKubeletApiEndpoint ==
    /\ Initialised
    /\ lastOp' = Returned("GetKubeletApiEndpoint", GetKubeletApiEndpointF(ku).scheme,
                          <<>>, NoPod, NoErr, 0, 0, 0, FALSE)
    /\ UNCHANGED <<now, cache, kubelet, initVars, concVars>>

\* ku.QueryKubelet(path)
QueryKubelet(path, answer) ==
    /\ Initialised
    /\ \E q \in {QueryKubeletF(ku, path, answer)} :
         lastOp' = Returned("QueryKubelet", path, <<>>, NoPod, q.err, 1, 0, 0, FALSE)
    /\ UNCHANGED <<now, cache, kubelet, initVars, concVars>>

\* ku.GetRawMetrics()
GetRawMetrics(answer) ==
    /\ Initialised
    /\ \E q \in {GetRawMetricsF(ku, answer)} :
         lastOp' = Returned("GetRawMetrics", "", <<>>, NoPod, q.err, 1, 0, 0, FALSE)
    /\ UNCHANGED <<now, cache, kubelet, initVars, concVars>>

NextP ==
    \/ StartInit
    \/ Negotiate
    \/ \E a \in ProbeAnswers : ProbeHTTPS(a)
    \/ \E a \in PodsAnswers : QueryPods(a)
    \/ ResetAndTryHTTP
    \/ \E a \in HttpAnswers : ProbeHTTP(a)
    \/ GetRawConnectionInfo
    \/ GetKubeletApiEndpoint
    \/ \E path \in QueryPaths, a \in HttpAnswers : QueryKubelet(path, a)
    \/ \E a \in HttpAnswers : GetRawMetrics(a)

SpecProbe == InitP /\ [][NextP]_vars

(***************************************************************************)
(* Properties of the credentials (under SpecProbe)                         *)
(***************************************************************************)
\* k carries no credential: no Authorization header, and none of token,
\* client_crt, client_key in the connection-info map
NoCredentials(k) ==
    /\ k.authorization = NoHeader
    /\ ~MapHas(k.rawConnectionInfo, "token")
    /\ ~MapHas(k.rawConnectionInfo, "client_crt")
    /\ ~MapHas(k.rawConnectionInfo, "client_key")

\* the step is a run of setupKubeletApiClient that returns no error
NegotiationSucceeds == step.at = "setup" /\ step'.at = "probe"

\* C13: the step that runs resetCredentials leaves the client without
\* Authorization header and without token, client_crt and client_key in the
\* map; a client without them gets them only by a setupKubeletApiClient that
\* returns no error
C13_AbsentUntilNegotiation ==
    [][/\ (step.at = "reset" /\ step'.at = "http") => NoCredentials(ku')
       /\ (NoCredentials(ku) /\ ~NoCredentials(ku')) => NegotiationSucceeds
      ]_vars

\* C13 witness: the second host's credentials have been reset, after those
\* of the first host were reset and a negotiation set them again
C13_Witness ==
    /\ step = At("http", 2)
    /\ config.tls = "ok"
    /\ config.cert = "unset"
    /\ config.tokenPath = "ok"
    /\ NoCredentials(ku)

\* C14: a call made on the client once GetKubeUtil has returned it leaves
\* the request headers and the connection-info map as they were
C14_AccessorsWriteNothing ==
    [][Initialised =>
         /\ ku'.authorization = ku.authorization
         /\ ku'.rawConnectionInfo = ku.rawConnectionInfo
      ]_vars

\* k carries no bearer token
NoToken(k) == k.authorization = NoHeader /\ ~MapHas(k.rawConnectionInfo, "token")
\* k carries no client certificate
NoCertificate(k) ==
    /\ ~k.clientCert
    /\ ~MapHas(k.rawConnectionInfo, "client_crt")
    /\ ~MapHas(k.rawConnectionInfo, "client_key")
\* k carries the bearer token token, and nothing else
OnlyToken(k, token) ==
    /\ k.authorization = BearerHeader(token)
    /\ <<"token", token>> \in k.rawConnectionInfo
    /\ NoCertificate(k)
\* the step is a run of setupKubeletApiClient that returns the error e
NegotiationFails(e) == step.at = "setup" /\ step' = NotRunning /\ lastCall'.err = e

\* C15: a run of setupKubeletApiClient whose TLS setup succeeds applies one
\* strategy, the first configured of client certificate, token path,
\* service-account token, none, and never a later one, also when the first
\* configured one fails: with a certificate configured the client gets no
\* bearer token and no Authorization header; the service-account token is
\* set only when neither certificate nor token path is configured
C15_FirstStrategyOnly ==
    [][(step.at = "setup" /\ step' # step /\ config.tls = "ok") =>
         IF config.cert # "unset"
         THEN /\ NoToken(ku')
              /\ IF config.cert = "ok"
                 THEN /\ NegotiationSucceeds
                      /\ ku'.clientCert
                      /\ MapHas(ku'.rawConnectionInfo, "client_crt")
                      /\ MapHas(ku'.rawConnectionInfo, "client_key")
                 ELSE NegotiationFails(Errorf("certificates")) /\ NoCertificate(ku')
         ELSE IF config.tokenPath # "unset"
         THEN IF config.tokenPath = "ok"
              THEN NegotiationSucceeds /\ OnlyToken(ku', "token-file")
              ELSE /\ NegotiationFails(Errorf("bearer token"))
                   /\ NoToken(ku')
                   /\ NoCertificate(ku')
         ELSE IF config.saToken # "unavailable"
         THEN IF config.saToken = "ok"
              THEN NegotiationSucceeds /\ OnlyToken(ku', "service-account")
              ELSE /\ NegotiationFails(Errorf("bearer token"))
                   /\ NoToken(ku')
                   /\ NoCertificate(ku')
         ELSE NegotiationSucceeds /\ NoToken(ku') /\ NoCertificate(ku')
      ]_vars

\* C15 witness: certificate, token path and service-account token were all
\* usable, and the negotiation has set the certificate and no token
C15_Witness ==
    /\ step.at = "probe"
    /\ config.tls = "ok"
    /\ config.cert = "ok"
    /\ config.tokenPath = "ok"
    /\ config.saToken = "ok"
    /\ ku.clientCert
    /\ NoToken(ku)

(***************************************************************************)
(* SpecNode: GetNodeInfo on an initialised client, over pod lists whose    *)
(* pods have or lack a host IP and a node name                             *)
(***************************************************************************)
\* a pod with a host IP and no node name, and a second pod with both
PodC == [uid |-> "u3", containers |-> <<>>, hostIP |-> "h2", nodeName |-> ""]
PodD == [uid |-> "u4", containers |-> <<>>, hostIP |-> "h2", nodeName |-> "n2"]
NodePods == {PodA, PodB, PodC, PodD}
NodePodLists ==
    {l \in UNION {[1..n -> NodePods] : n \in 0..MaxPods} :
        \A i, j \in DOMAIN l : l[i] = l[j] => i = j}
NodeResponses ==
    {RespOK(l) : l \in NodePodLists} \cup {RespTransport, RespStatus, RespGarbage}

NodeResult(c, ip, name, e, q) ==
    [cache |-> c, ip |-> ip, name |-> name, err |-> e, queries |-> q]

\* index of the first pod of pods with Status.HostIP and Spec.NodeName both
\* non-empty, 0 if none
RECURSIVE FirstPodWithNodeInfo(_, _)
FirstPodWithNodeInfo(pods, i) ==
    IF i > Len(pods) THEN 0
    ELSE IF pods[i].hostIP = "" \/ pods[i].nodeName = ""
         THEN FirstPodWithNodeInfo(pods, i + 1)
         ELSE i

\* index of the first pod of pods with Spec.NodeName non-empty, 0 if none
RECURSIVE FirstPodWithNodeName(_, _)
FirstPodWithNodeName(pods, i) ==
    IF i > Len(pods) THEN 0
    ELSE IF pods[i].nodeName = "" THEN FirstPodWithNodeName(pods, i + 1)
         ELSE i

\* GetNodeInfo taking the first pod with a node name, as GetHostname does
GetNodeInfoNodeNameOnly(c, t, d, resp) ==
    LET r == GetLocalPodListF(c, t, d, resp) IN
    IF r.err # NoErr
    THEN NodeResult(r.cache, "", "",
                    Errorf("error getting pod list from kubelet: " \o r.err.msg), r.queries)
    ELSE LET i == FirstPodWithNodeName(r.items, 1) IN
         IF i > 0
         THEN NodeResult(r.cache, r.items[i].hostIP, r.items[i].nodeName, NoErr, r.queries)
         ELSE NodeResult(r.cache, "", "",
                         Errorf("failed to get node info, pod list length: "
                                  \o ToString(Len(r.items))),
                         r.queries)

\* KubeUtil.GetNodeInfo
GetNodeInfoF(c, t, d, resp) ==
    LET r == GetLocalPodListF(c, t, d, resp) IN
    IF r.err # NoErr
    THEN NodeResult(r.cache, "", "",
                    Errorf("error getting pod list from kubelet: " \o r.err.msg), r.queries)
    ELSE LET i == FirstPodWithNodeInfo(r.items, 1) IN
         IF i > 0
         THEN NodeResult(r.cache, r.items[i].hostIP, r.items[i].nodeName, NoErr, r.queries)
         ELSE NodeResult(r.cache, "", "",
                         Errorf("failed to get node info, pod list length: "
                                  \o ToString(Len(r.items))),
                         r.queries)

InitN ==
    /\ now = 0
    /\ cache = NoEntry
    /\ kubelet \in NodeResponses
    /\ lastOp = NoOp
    /\ globalKubeUtil = 1
    /\ kus = <<ReadyClient>>
    /\ config = ReadyConfig
    /\ lastCall = NoCall
    /\ attempts = 1
    /\ crashed = FALSE
    /\ pc = [p \in Procs |-> "idle"]
    /\ self = [p \in Procs |-> 0]
    /\ step = NotRunning
    /\ fetch = [p \in Procs |-> NoFetch]

\* the kubelet's pods change, or it starts or stops failing
NodeKubeletChange ==
    /\ kubelet' \in NodeResponses \ {kubelet}
    /\ UNCHANGED <<now, cache, lastOp, initVars, concVars>>

\* ku.GetNodeInfo(): the host IP and node name returned are recorded in the
\* fields hostIP and nodeName of lastOp.pod
GetNodeInfo ==
    \E r \in {GetNodeInfoF(cache, now, ku.podListCacheDuration, kubelet)} :
    /\ cache' = r.cache
    /\ lastOp' = Returned("GetNodeInfo", "", <<>>,
                          [NoPod EXCEPT !.hostIP = r.ip, !.nodeName = r.name], r.err,
                          r.queries, 0, 0, r.queries = 0)
    /\ UNCHANGED <<now, kubelet, initVars, concVars>>

NextN ==
    \/ NodeKubeletChange
    \/ ResetCache
    \/ GetNodeInfo

SpecNode == InitN /\ [][NextN]_vars

\* pod p has a host IP and a node name
HasNodeInfo(p) == p.hostIP # "" /\ p.nodeName # ""

\* C16: when GetNodeInfo obtains a pod list, it returns the host IP and the
\* node name of the first pod of the list that has both, and when no pod has
\* both it returns an error whose message ends with the length of the list
C16_FirstPodWithBoth ==
    [][(Returns("GetNodeInfo") /\ ObtainsFirst) =>
         LET l == FirstItems IN
         IF \E i \in DOMAIN l : HasNodeInfo(l[i])
         THEN \E i \in DOMAIN l :
                 /\ HasNodeInfo(l[i])
                 /\ \A j \in 1..(i - 1) : ~HasNodeInfo(l[j])
                 /\ lastOp'.err = NoErr
                 /\ lastOp'.pod.hostIP = l[i].hostIP
                 /\ lastOp'.pod.nodeName = l[i].nodeName
         ELSE /\ lastOp'.err = Errorf("failed to get node info, pod list length: "
                                        \o ToString(Len(l)))
              /\ lastOp'.pod.hostIP = ""
              /\ lastOp'.pod.nodeName = ""
      ]_vars

\* C16 witness: the first pod of the list has no host IP, the second has
\* host IP and node name, and the call returned those of the second
C16_Witness ==
    /\ lastOp.name = "GetNodeInfo"
    /\ lastOp.err = NoErr
    /\ cache.present
    /\ Len(cache.items) = 2
    /\ cache.items[1].hostIP = ""
    /\ HasNodeInfo(cache.items[2])
    /\ lastOp.pod.hostIP = cache.items[2].hostIP
    /\ lastOp.pod.nodeName = cache.items[2].nodeName

(***************************************************************************)
(* Properties of the HTTP fallback of init (under SpecInit)                *)
(***************************************************************************)
\* C18: every plain HTTP request of init is sent without Authorization
\* header, and a client that GetKubeUtil returns with an http endpoint has no
\* Authorization header and none of token, client_crt, client_key in its
\* connection-info map
C18_NoCredentialsOverHTTP ==
    lastCall.name = "GetKubeUtil" =>
        /\ \A j \in DOMAIN lastCall.log :
              lastCall.log[j].scheme = "http" => lastCall.log[j].auth = NoHeader
        /\ (lastCall.err = NoErr
              /\ kus[lastCall.client].kubeletApiEndpoint.scheme = "http") =>
                 NoCredentials(kus[lastCall.client])

\* C18 witness: init sent the bearer token with its HTTPS query, and then
\* committed the http endpoint of the same host
C18_Witness ==
    /\ lastCall.name = "GetKubeUtil"
    /\ lastCall.ran
    /\ lastCall.err = NoErr
    /\ kus[lastCall.client].kubeletApiEndpoint.scheme = "http"
    /\ \E j \in DOMAIN lastCall.log :
          /\ lastCall.log[j].scheme = "https"
          /\ lastCall.log[j].auth # NoHeader
          /\ lastCall.log[j].host = kus[lastCall.client].kubeletHost

\* C19: in a run of init, a plain HTTP GET / that gets any answer, whatever
\* its status code, ends the run with the http endpoint of that host
\* committed; one that fails in transport is followed by the next host, or by
\* the error return after the last host; an HTTPS request ends the run, with
\* the https endpoint committed, only if it is the query of the pods path
\* answered 200
C19_HTTPCommitsOnAnyAnswer ==
    (lastCall.name = "GetKubeUtil" /\ lastCall.ran) =>
        LET log == lastCall.log
            n == Len(lastCall.log)
        IN  \A j \in DOMAIN log :
              /\ (log[j].scheme = "http" /\ log[j].answer # "err") =>
                    /\ j = n
                    /\ lastCall.err = NoErr
                    /\ kus[lastCall.client].kubeletApiEndpoint = HttpEndpoint(log[j].host)
              /\ (log[j].scheme = "http" /\ log[j].answer = "err") =>
                    IF HostIndex(log[j].host) < Len(potentialKubeletHosts)
                    THEN /\ j < n
                         /\ log[j + 1].host =
                              potentialKubeletHosts[HostIndex(log[j].host) + 1]
                    ELSE j = n /\ lastCall.err # NoErr
              /\ log[j].scheme = "https" =>
                    /\ (j = n) <=> (log[j].path = kubeletPodPath /\ log[j].answer = "200")
                    /\ (j = n) =>
                          /\ lastCall.err = NoErr
                          /\ kus[lastCall.client].kubeletApiEndpoint =
                               HttpsEndpoint(log[j].host)

\* C19 witness: the HTTPS query of the pods path was answered with a status
\* other than 200, the plain HTTP GET / with 401 or 500, and the http
\* endpoint was committed
C19_Witness ==
    /\ lastCall.name = "GetKubeUtil"
    /\ lastCall.ran
    /\ lastCall.err = NoErr
    /\ Len(lastCall.log) >= 3
    /\ LET n == Len(lastCall.log) IN
       /\ lastCall.log[n].scheme = "http"
       /\ lastCall.log[n].answer \in {"401", "500"}
       /\ lastCall.log[n - 1].path = kubeletPodPath
       /\ IsStatus(lastCall.log[n - 1].answer)
       /\ kus[lastCall.client].kubeletApiEndpoint = HttpEndpoint(lastCall.log[n].host)

(***************************************************************************)
(* SpecRace: goroutines in GetLocalPodList and ForceGetLocalPodList on the *)
(* initialised client, one statement at a time.  The code takes no lock;   *)
(* each call of cache.Cache is atomic.  Of a goroutine q that holds an     *)
(* answer of the kubelet, fetch[q].before is the set of goroutines whose   *)
(* forced refresh started since, and fetch[q].late tells that one of those *)
(* has stored its list.                                                    *)
(***************************************************************************)
\* what the kubelet may answer in SpecRace
RaceResponses == {RespOK(<<>>), RespOK(<<PodA>>), RespTransport}

InitR ==
    /\ now = 0
    /\ cache = NoEntry
    /\ kubelet \in RaceResponses
    /\ lastOp = NoOp
    /\ globalKubeUtil = 1
    /\ kus = <<ReadyClient>>
    /\ config = ReadyConfig
    /\ lastCall = NoCall
    /\ attempts = 1
    /\ crashed = FALSE
    /\ pc = [p \in Procs |-> "idle"]
    /\ self = [p \in Procs |-> 0]
    /\ step = NotRunning
    /\ fetch = [p \in Procs |-> NoFetch]

\* the kubelet's pods change, or it starts or stops failing
RaceKubeletChange ==
    /\ kubelet' \in RaceResponses \ {kubelet}
    /\ UNCHANGED <<now, cache, lastOp, initVars, concVars>>

\* fetch when the call of goroutine p ends; stored tells whether the call
\* wrote the cache entry
EndFetch(p, stored) ==
    [q \in Procs |->
        IF q = p THEN NoFetch
        ELSE [fetch[q] EXCEPT
                !.late = @ \/ (stored /\ fetch[p].forced /\ p \in fetch[q].before),
                !.before = @ \ {p}]]

\* goroutine p calls ku.GetLocalPodList()
CallGetLocalPodList(p) ==
    /\ pc[p] = "idle"
    /\ pc' = [pc EXCEPT ![p] = "get"]
    /\ fetch' = [fetch EXCEPT ![p] = NoFetch]
    /\ UNCHANGED <<cacheVars, initVars, self, step>>

\* goroutine p calls ku.ForceGetLocalPodList(): ResetCache(), and then
\* GetLocalPodList()
CallForceGetLocalPodList(p) ==
    /\ pc[p] = "idle"
    /\ cache' = ResetCacheF(cache)
    /\ pc' = [pc EXCEPT ![p] = "get"]
    /\ fetch' = [q \in Procs |->
                    IF q = p THEN [NoFetch EXCEPT !.forced = TRUE]
                    ELSE IF pc[q] = "store" THEN [fetch[q] EXCEPT !.before = @ \cup {p}]
                    ELSE fetch[q]]
    /\ UNCHANGED <<now, kubelet, lastOp, initVars, self, step>>

\* cache.Cache.Get(podListCacheKey): on a hit the call returns the entry
CacheGet(p) ==
    /\ pc[p] = "get"
    /\ IF CacheHit(cache, now)
       THEN pc' = [pc EXCEPT ![p] = "idle"] /\ fetch' = EndFetch(p, FALSE)
       ELSE pc' = [pc EXCEPT ![p] = "query"] /\ UNCHANGED fetch
    /\ UNCHANGED <<cacheVars, initVars, self, step>>

\* ku.QueryKubelet(kubeletPodPath): the kubelet answers
QueryPodList(p) ==
    /\ pc[p] = "query"
    /\ pc' = [pc EXCEPT ![p] = "store"]
    /\ fetch' = [fetch EXCEPT ![p].resp = kubelet]
    /\ UNCHANGED <<cacheVars, initVars, self, step>>

\* the rest of GetLocalPodList: on an error, a status other than 200 or a
\* body that does not parse the call returns the error; else it stores the
\* list and returns it
StorePodList(p) ==
    /\ pc[p] = "store"
    /\ cache' = IF Fetchable(fetch[p].resp)
                THEN CacheSet(fetch[p].resp.items, now, ku.podListCacheDuration)
                ELSE cache
    /\ pc' = [pc EXCEPT ![p] = "idle"]
    /\ fetch' = EndFetch(p, Fetchable(fetch[p].resp))
    /\ UNCHANGED <<now, kubelet, lastOp, initVars, self, step>>

NextR ==
    \/ RaceKubeletChange
    \/ \E p \in Procs :
        \/ CallGetLocalPodList(p)
        \/ CallForceGetLocalPodList(p)
        \/ CacheGet(p)
        \/ QueryPodList(p)
        \/ StorePodList(p)

SpecRace == InitR /\ [][NextR]_vars

\* C20: once a forced refresh has stored its list, a goroutine holding a
\* kubelet answer it obtained before that forced refresh started does not
\* replace the cache entry with it
C20_NoRegress ==
    [][\A p \in Procs :
         (pc[p] = "store" /\ pc'[p] = "idle" /\ fetch[p].late) => cache' = cache
      ]_vars

====
